---- MODULE Spec2Model ----
(***************************************************************************)
(* Model of the Globle solver (src/solver/src/main.rs): the distance       *)
(* cache, the candidate search and the margin-expansion loop of main.      *)
(*                                                                         *)
(* Strings are sequences of ASCII codes, so that `<`, `!=`,                *)
(* eq_ignore_ascii_case and trim are computed as Rust computes them.       *)
(* An f64 is a record [k, v]: k = "fin" with v the value in units of       *)
(* 1/Scale, or k = "inf", "ninf", "nan" (v = 0).  Binary fractions are     *)
(* exact in an f64, so the fixed-point arithmetic below is exact too.      *)
(***************************************************************************)
EXTENDS Integers, Sequences, FiniteSets, TLC

\* ---------------------------------------------------------------- bounds
FracBits == 1          \* fractional bits kept of an f64
MaxPoints == 2         \* points per country in SpecDist
MaxCount == 3          \* history counters saturate here
NumCallers == 2        \* callers sharing the cache in SpecConc
MaxEvals == 104        \* the evaluation counter of a query saturates here

Scale == 2 ^ FracBits

\* ------------------------------------------------------------- constants
MAX_MARGIN_INCREASE_KM == 100
MARGIN_STEP_KM == 1
MetresPerKm == 1000
EarthCircumferenceKm == 40030

\* ------------------------------------------------------------------- f64
Fin(n) == [k |-> "fin", v |-> n]
Km(n) == Fin(n * Scale)
HalfKm(n) == Fin(n * (Scale \div 2))
INFINITY == [k |-> "inf", v |-> 0]
NEG_INFINITY == [k |-> "ninf", v |-> 0]
NAN == [k |-> "nan", v |-> 0]

MAX_MARGIN_INCREASE == Km(MAX_MARGIN_INCREASE_KM)
MARGIN_STEP == Km(MARGIN_STEP_KM)

FNeg(a) ==
    CASE a.k = "fin" -> Fin(0 - a.v)
      [] a.k = "inf" -> NEG_INFINITY
      [] a.k = "ninf" -> INFINITY
      [] OTHER -> NAN

FAdd(a, b) ==
    CASE a.k = "nan" \/ b.k = "nan" -> NAN
      [] a.k = "fin" /\ b.k = "fin" -> Fin(a.v + b.v)
      [] a.k = "fin" -> b
      [] b.k = "fin" -> a
      [] a.k = b.k -> a
      [] OTHER -> NAN

FSub(a, b) == FAdd(a, FNeg(b))

\* a < b of f64: false as soon as one side is NaN
FLt(a, b) ==
    /\ a.k # "nan"
    /\ b.k # "nan"
    /\ CASE a.k = "ninf" -> b.k # "ninf"
         [] a.k = "inf" -> FALSE
         [] b.k = "inf" -> TRUE
         [] b.k = "ninf" -> FALSE
         [] OTHER -> a.v < b.v

FEq(a, b) == a.k # "nan" /\ b.k # "nan" /\ a = b
FLe(a, b) == FLt(a, b) \/ FEq(a, b)
FGe(a, b) == FLe(b, a)
FGt(a, b) == FLt(b, a)

\* f64::min: the other operand when one is NaN
FMin(a, b) ==
    IF a.k = "nan" THEN b
    ELSE IF b.k = "nan" THEN a
    ELSE IF FLt(b, a) THEN b ELSE a

\* x / 1000.0 for the values the model produces (whole multiples of 1000)
FDivMetres(a) == IF a.k = "fin" THEN Fin(a.v \div MetresPerKm) ELSE a

\* --------------------------------------------------------------- strings
ToAsciiLower(c) == IF c >= 65 /\ c <= 90 THEN c + 32 ELSE c

eq_ignore_ascii_case(s, t) ==
    /\ Len(s) = Len(t)
    /\ \A i \in 1..Len(s) : ToAsciiLower(s[i]) = ToAsciiLower(t[i])

\* s < t of str: byte-wise lexicographic order
RECURSIVE StrLt(_, _)
StrLt(s, t) ==
    IF t = <<>> THEN FALSE
    ELSE IF s = <<>> THEN TRUE
    ELSE IF Head(s) # Head(t) THEN Head(s) < Head(t)
    ELSE StrLt(Tail(s), Tail(t))

IsWhitespace(c) == c \in {9, 10, 11, 12, 13, 32}

RECURSIVE TrimStart(_)
TrimStart(s) ==
    IF s # <<>> /\ IsWhitespace(Head(s)) THEN TrimStart(Tail(s)) ELSE s

RECURSIVE TrimEnd(_)
TrimEnd(s) ==
    IF s # <<>> /\ IsWhitespace(s[Len(s)])
    THEN TrimEnd(SubSeq(s, 1, Len(s) - 1)) ELSE s

Trim(s) == TrimEnd(TrimStart(s))

\* names of the special-pair table and of the boundary store
SouthAfrica == <<83, 111, 117, 116, 104, 32, 65, 102, 114, 105, 99, 97>>
Lesotho == <<76, 101, 115, 111, 116, 104, 111>>
Italy == <<73, 116, 97, 108, 121>>
Vatican == <<86, 97, 116, 105, 99, 97, 110>>
SanMarino == <<83, 97, 110, 32, 77, 97, 114, 105, 110, 111>>
France == <<70, 114, 97, 110, 99, 101>>
Monaco == <<77, 111, 110, 97, 99, 111>>
Spain == <<83, 112, 97, 105, 110>>
Gibraltar == <<71, 105, 98, 114, 97, 108, 116, 97, 114>>
China == <<67, 104, 105, 110, 97>>
HongKong == <<72, 111, 110, 103, 32, 75, 111, 110, 103>>
Macau == <<77, 97, 99, 97, 117>>
FRANCE_UPPER == <<70, 82, 65, 78, 67, 69>>         \* "FRANCE"
SPAIN_UPPER == <<83, 80, 65, 73, 78>>              \* "SPAIN"
Andorra == <<65, 110, 100, 111, 114, 114, 97>>
quit == <<113, 117, 105, 116>>

\* lines typed at the country prompt, as read_line returns them
line_france == <<102, 114, 97, 110, 99, 101, 10>>              \* "france\n"
line_monaco == <<77, 111, 110, 97, 99, 111, 10>>               \* "Monaco\n"
line_andorra == <<97, 110, 100, 111, 114, 114, 97, 10>>        \* "andorra\n"
line_spain == <<32, 83, 80, 65, 73, 78, 10>>                   \* " SPAIN\n"
line_gibraltar == <<103, 105, 98, 114, 97, 108, 116, 97, 114, 10>>
line_atlantis == <<65, 116, 108, 97, 110, 116, 105, 115, 10>>  \* "Atlantis\n"
line_quit == <<81, 117, 105, 116, 10>>                         \* "Quit\n"

\* ------------------------------------------------------------- geometry
\* A Point is a position on the equator, in units of 1/Scale km.
Circumference == EarthCircumferenceKm * Scale

Abs(n) == IF n < 0 THEN 0 - n ELSE n

\* great-circle distance in metres between two points of the equator
haversine_distance(p1, p2) ==
    LET d == Abs(p1 - p2)
    IN  Fin(MetresPerKm * (IF d <= Circumference - d THEN d ELSE Circumference - d))

RECURSIVE FoldMin(_, _)
FoldMin(acc, ds) ==
    IF ds = <<>> THEN acc ELSE FoldMin(FMin(acc, Head(ds)), Tail(ds))

\* the flat_map of line 248: every p1 with every p2, p1-major
RECURSIVE FlatMap(_, _)
FlatMap(points1, points2) ==
    IF points1 = <<>> THEN <<>>
    ELSE [j \in 1..Len(points2) |-> haversine_distance(Head(points1), points2[j])]
         \o FlatMap(Tail(points1), points2)

\* only the first point of points1 is measured against points2
calculate_from_first_point(points1, points2) ==
    FDivMetres(FoldMin(INFINITY,
        FlatMap(IF points1 = <<>> THEN <<>> ELSE <<Head(points1)>>, points2)))

calculate_min_distance_km(points1, points2) ==
    FDivMetres(FoldMin(INFINITY, FlatMap(points1, points2)))

\* ---------------------------------------------------------- special case
special_pairs ==
    << <<SouthAfrica, Lesotho>>, <<Italy, Vatican>>, <<Italy, SanMarino>>,
       <<France, Monaco>>, <<Spain, Gibraltar>>, <<China, HongKong>>,
       <<China, Macau>> >>

\* the table matched byte for byte instead of ignoring case
is_special_case_exact(country1, country2) ==
    \E i \in 1..Len(special_pairs) :
        \/ country1 = special_pairs[i][1] /\ country2 = special_pairs[i][2]
        \/ country1 = special_pairs[i][2] /\ country2 = special_pairs[i][1]

is_special_case(country1, country2) ==
    \E i \in 1..Len(special_pairs) :
        LET a == special_pairs[i][1]
            b == special_pairs[i][2]
        IN  \/ eq_ignore_ascii_case(country1, a) /\ eq_ignore_ascii_case(country2, b)
            \/ eq_ignore_ascii_case(country1, b) /\ eq_ignore_ascii_case(country2, a)

\* -------------------------------------------------------- boundary store
CountryData(name, points) == [name |-> name, points |-> points]

PointsKm(ps) == [i \in 1..Len(ps) |-> ps[i] * Scale]

\* stores main can build at lines 65-74, in feature order; a Polygon without
\* rings gives a country without points (extract_points, lines 236-243)
StoreWorld ==
    << CountryData(France, PointsKm(<<0, 10>>)),
       CountryData(Monaco, PointsKm(<<12>>)),
       CountryData(FRANCE_UPPER, PointsKm(<<15>>)),
       CountryData(Andorra, PointsKm(<<60, 40025>>)),
       CountryData(SPAIN_UPPER, PointsKm(<<100>>)),
       CountryData(Gibraltar, <<>>) >>

StoreSmall ==
    << CountryData(France, PointsKm(<<0, 10>>)),
       CountryData(Monaco, PointsKm(<<12>>)),
       CountryData(Andorra, PointsKm(<<60, 40025>>)) >>

\* two single-point countries 100 km apart
StoreTwo ==
    << CountryData(Andorra, PointsKm(<<0>>)),
       CountryData(Lesotho, PointsKm(<<100>>)) >>

Stores == {StoreWorld, StoreSmall, StoreTwo}

\* ------------------------------------------------------------ Option<f64>
None == [k |-> "none", v |-> 0]
IsSome(o) == o.k # "none"

\* ------------------------------------------------------------------ state
VARIABLES
    country_geometries, \* the boundary store, fixed once built
    cache,              \* DistanceCache.cache: key -> f64
    lock,               \* the Mutex: 0 when free, else the caller holding it
    pc,                 \* per caller: position in main / find_mystery_countries
    guessed,            \* per caller: index of guessed_country in the store, 0 = none
    known_distance_km,  \* per caller
    initial_margin,     \* per caller
    margin_error_km,    \* per caller
    idx,                \* per caller: position of the all_countries iterator
    possible_countries, \* per caller: names collected / returned
    args,               \* per caller: arguments of the running get_or_calculate
    distance,           \* per caller: Option<f64> result of get_or_calculate
    calls,              \* history: unordered pair -> invocations of calc_fn
    evals,              \* history: per caller, find_mystery_countries calls of the query
    asked               \* history: names of the countries guessed in a query so far

vars == <<country_geometries, cache, lock, pc, guessed, known_distance_km, initial_margin,
          margin_error_km, idx, possible_countries, args, distance, calls, evals,
          asked>>

Zero == Fin(0)
NoArgs == [country1 |-> <<>>, country2 |-> <<>>, calc_fn |-> None]
EmptyMap == [x \in {} |-> 0]

Callers == DOMAIN pc

\* DistanceCache::new and the locals of main before the first prompt
InitFor(callers, stores, at) ==
    /\ country_geometries \in stores
    /\ cache = EmptyMap
    /\ lock = 0
    /\ pc = [p \in callers |-> at]
    /\ guessed = [p \in callers |-> 0]
    /\ known_distance_km = [p \in callers |-> Zero]
    /\ initial_margin = [p \in callers |-> Zero]
    /\ margin_error_km = [p \in callers |-> Zero]
    /\ idx = [p \in callers |-> 0]
    /\ possible_countries = [p \in callers |-> <<>>]
    /\ args = [p \in callers |-> NoArgs]
    /\ distance = [p \in callers |-> None]
    /\ calls = EmptyMap
    /\ evals = [p \in callers |-> 0]
    /\ asked = {}

\* one caller: main as written
Init == InitFor({1}, Stores, "prompt")

\* several callers of find_mystery_countries sharing one Arc<Mutex<DistanceCache>>
InitConc == InitFor(1..NumCallers, {StoreSmall}, "prompt")

\* get_or_calculate called directly with any names and any closure
InitCache == InitFor({1}, {StoreSmall}, "test")

\* ---------------------------------------------------------------- helpers
Bump(n) == IF n < MaxCount THEN n + 1 ELSE n

Pair(c1, c2) == {c1, c2}

Count(f, k) == IF k \in DOMAIN f THEN f[k] ELSE 0

Put(f, k, x) == [y \in DOMAIN f \cup {k} |-> IF y = k THEN x ELSE f[y]]

\* the key as given, without ordering the two names
KeyAsGiven(country1, country2) == <<country1, country2>>

\* lines 29-33
Key(country1, country2) ==
    IF StrLt(country1, country2) THEN <<country1, country2>>
    ELSE <<country2, country1>>

\* country_geometries.iter().find(..) of lines 90-92: first match, 0 = None
FindCountry(name) ==
    LET hits == {i \in 1..Len(country_geometries) :
                    eq_ignore_ascii_case(country_geometries[i].name, name)}
    IN  IF hits = {} THEN 0 ELSE CHOOSE i \in hits : \A j \in hits : i <= j

\* a part of the distance line as str::parse::<f64> sees it
ParseOk(x) == [ok |-> TRUE, val |-> x]
ParseErr == [ok |-> FALSE, val |-> Zero]

Ok(d, m) == [ok |-> TRUE, distance |-> d, margin |-> m]
Err == [ok |-> FALSE, distance |-> Zero, margin |-> Zero]

\* lines 149-171; parts is the line split at "--", each part parsed
parse_distance_input(parts) ==
    IF Len(parts) = 1 THEN
        IF ~parts[1].ok THEN Err
        ELSE IF FLt(parts[1].val, Zero) THEN Err
        ELSE Ok(parts[1].val, Zero)
    ELSE IF Len(parts) = 2 THEN
        IF ~parts[1].ok \/ ~parts[2].ok THEN Err
        ELSE IF FLt(parts[1].val, Zero) \/ FLt(parts[2].val, Zero) THEN Err
        ELSE Ok(parts[1].val, parts[2].val)
    ELSE Err

lower_bound(p) == FSub(known_distance_km[p], margin_error_km[p])
upper_bound(p) == FAdd(known_distance_km[p], margin_error_km[p])

guessed_country(p) == country_geometries[guessed[p]]
country(p) == country_geometries[idx[p]]

Scanning(p) == pc[p] = "scan" /\ idx[p] <= Len(country_geometries)

\* the locals of one pass of the outer loop of main go out of scope
ResetQuery(p) ==
    /\ guessed' = [guessed EXCEPT ![p] = 0]
    /\ known_distance_km' = [known_distance_km EXCEPT ![p] = Zero]
    /\ initial_margin' = [initial_margin EXCEPT ![p] = Zero]
    /\ margin_error_km' = [margin_error_km EXCEPT ![p] = Zero]
    /\ idx' = [idx EXCEPT ![p] = 0]
    /\ possible_countries' = [possible_countries EXCEPT ![p] = <<>>]
    /\ evals' = [evals EXCEPT ![p] = 0]

\* ------------------------------------------------------------------- main
\* lines 79-88: the line read is "quit"
Quit(p, line) ==
    /\ pc[p] = "prompt"
    /\ eq_ignore_ascii_case(Trim(line), quit)
    /\ pc' = [pc EXCEPT ![p] = "done"]
    /\ UNCHANGED <<asked, country_geometries, cache, lock, guessed, known_distance_km, initial_margin,
                   margin_error_km, idx, possible_countries, args, distance,
                   calls, evals>>

\* lines 90-98: no country of that name, back to the prompt
CountryNotFound(p, line) ==
    /\ pc[p] = "prompt"
    /\ ~eq_ignore_ascii_case(Trim(line), quit)
    /\ FindCountry(Trim(line)) = 0
    /\ UNCHANGED vars

\* lines 90-93: the guessed country is resolved
CountryFound(p, line) ==
    /\ pc[p] = "prompt"
    /\ ~eq_ignore_ascii_case(Trim(line), quit)
    /\ FindCountry(Trim(line)) # 0
    /\ guessed' = [guessed EXCEPT ![p] = FindCountry(Trim(line))]
    /\ pc' = [pc EXCEPT ![p] = "distance"]
    /\ UNCHANGED <<asked, country_geometries, cache, lock, known_distance_km, initial_margin,
                   margin_error_km, idx, possible_countries, args, distance,
                   calls, evals>>

\* lines 105-110: the distance line is rejected, back to the prompt
DistanceRejected(p, parts) ==
    /\ pc[p] = "distance"
    /\ ~parse_distance_input(parts).ok
    /\ pc' = [pc EXCEPT ![p] = "prompt"]
    /\ ResetQuery(p)
    /\ UNCHANGED <<asked, country_geometries, cache, lock, args, distance, calls>>

\* lines 105-114: the distance line is accepted
DistanceAccepted(p, parts) ==
    LET r == parse_distance_input(parts)
    IN  /\ pc[p] = "distance"
        /\ r.ok
        /\ known_distance_km' = [known_distance_km EXCEPT ![p] = r.distance]
        /\ initial_margin' = [initial_margin EXCEPT ![p] = r.margin]
        /\ margin_error_km' = [margin_error_km EXCEPT ![p] = r.margin]
        /\ asked' = asked \cup {guessed_country(p).name}
        /\ pc' = [pc EXCEPT ![p] = "call"]
        /\ UNCHANGED <<country_geometries, cache, lock, guessed, idx, possible_countries, args,
                       distance, calls, evals>>

\* where the evaluation counter saturates: past the longest expansion for one
\* caller; several callers need it only to tell a first evaluation from a retry
EvalCap == IF Cardinality(Callers) = 1 THEN MaxEvals ELSE MaxCount

\* lines 117-123 and 180-183: find_mystery_countries is entered
CallFind(p) ==
    /\ pc[p] = "call"
    /\ idx' = [idx EXCEPT ![p] = 1]
    /\ possible_countries' = [possible_countries EXCEPT ![p] = <<>>]
    /\ evals' = [evals EXCEPT ![p] = IF @ < EvalCap THEN @ + 1 ELSE @]
    /\ pc' = [pc EXCEPT ![p] = "scan"]
    /\ UNCHANGED <<asked, country_geometries, cache, lock, guessed, known_distance_km, initial_margin,
                   margin_error_km, args, distance, calls>>

\* ------------------------------------------------- find_mystery_countries
\* line 184: the guessed country itself is filtered out
FilterSelf(p) ==
    /\ Scanning(p)
    /\ country(p).name = guessed_country(p).name
    /\ idx' = [idx EXCEPT ![p] = @ + 1]
    /\ UNCHANGED <<asked, country_geometries, cache, lock, pc, guessed, known_distance_km, initial_margin,
                   margin_error_km, possible_countries, args, distance, calls,
                   evals>>

\* lines 186-188: a special pair is an automatic match
SpecialCase(p) ==
    /\ Scanning(p)
    /\ country(p).name # guessed_country(p).name
    /\ is_special_case(guessed_country(p).name, country(p).name)
    /\ possible_countries' =
           [possible_countries EXCEPT ![p] = Append(@, country(p).name)]
    /\ idx' = [idx EXCEPT ![p] = @ + 1]
    /\ UNCHANGED <<asked, country_geometries, cache, lock, pc, guessed, known_distance_km, initial_margin,
                   margin_error_km, args, distance, calls, evals>>

\* the cache is consulted for special pairs too
LockCacheAnyPair(p) ==
    /\ Scanning(p)
    /\ country(p).name # guessed_country(p).name
    /\ lock = 0
    /\ lock' = p
    /\ args' = [args EXCEPT ![p] =
                   [country1 |-> guessed_country(p).name,
                    country2 |-> country(p).name,
                    calc_fn |-> calculate_min_distance_km(
                                    guessed_country(p).points, country(p).points)]]
    /\ pc' = [pc EXCEPT ![p] = "lookup"]
    /\ UNCHANGED <<asked, country_geometries, cache, guessed, known_distance_km,
                   initial_margin, margin_error_km, idx, possible_countries,
                   distance, calls, evals>>

\* get_or_calculate entered without waiting for the Mutex
LockCacheUnguarded(p) ==
    /\ Scanning(p)
    /\ country(p).name # guessed_country(p).name
    /\ ~is_special_case(guessed_country(p).name, country(p).name)
    /\ lock' = p
    /\ args' = [args EXCEPT ![p] =
                   [country1 |-> guessed_country(p).name,
                    country2 |-> country(p).name,
                    calc_fn |-> calculate_min_distance_km(
                                    guessed_country(p).points, country(p).points)]]
    /\ pc' = [pc EXCEPT ![p] = "lookup"]
    /\ UNCHANGED <<asked, country_geometries, cache, guessed, known_distance_km,
                   initial_margin, margin_error_km, idx, possible_countries,
                   distance, calls, evals>>

\* lines 190-195: the lock is taken and get_or_calculate is called
LockCache(p) ==
    /\ Scanning(p)
    /\ country(p).name # guessed_country(p).name
    /\ ~is_special_case(guessed_country(p).name, country(p).name)
    /\ lock = 0
    /\ lock' = p
    /\ args' = [args EXCEPT ![p] =
                   [country1 |-> guessed_country(p).name,
                    country2 |-> country(p).name,
                    calc_fn |-> calculate_min_distance_km(
                                    guessed_country(p).points, country(p).points)]]
    /\ pc' = [pc EXCEPT ![p] = "lookup"]
    /\ UNCHANGED <<asked, country_geometries, cache, guessed, known_distance_km, initial_margin,
                   margin_error_km, idx, possible_countries, distance, calls,
                   evals>>

\* lines 184-190: the candidate passed both filters, the caller is at
\* cache.lock()
AtLock(p) ==
    /\ Scanning(p)
    /\ country(p).name # guessed_country(p).name
    /\ ~is_special_case(guessed_country(p).name, country(p).name)

\* ------------------------------------------------------- get_or_calculate
ArgKey(p) == Key(args[p].country1, args[p].country2)

\* lines 35-36: the key is present
CacheHit(p) ==
    /\ pc[p] = "lookup"
    /\ ArgKey(p) \in DOMAIN cache
    /\ distance' = [distance EXCEPT ![p] = cache[ArgKey(p)]]
    /\ pc' = [pc EXCEPT ![p] = "return"]
    /\ UNCHANGED <<asked, country_geometries, cache, lock, guessed, known_distance_km, initial_margin,
                   margin_error_km, idx, possible_countries, args, calls, evals>>

\* a closure yielding nothing is read as 0.0 and stored
CacheMissDefaultZero(p) ==
    /\ pc[p] = "lookup"
    /\ ArgKey(p) \notin DOMAIN cache
    /\ calls' = Put(calls, Pair(args[p].country1, args[p].country2),
                    Bump(Count(calls, Pair(args[p].country1, args[p].country2))))
    /\ distance' = [distance EXCEPT ![p] =
                       IF IsSome(args[p].calc_fn) THEN args[p].calc_fn ELSE Zero]
    /\ pc' = [pc EXCEPT ![p] = "insert"]
    /\ UNCHANGED <<asked, country_geometries, cache, lock, guessed, known_distance_km,
                   initial_margin, margin_error_km, idx, possible_countries,
                   args, evals>>

\* lines 37-38: the key is absent, calc_fn is invoked
CacheMiss(p) ==
    /\ pc[p] = "lookup"
    /\ ArgKey(p) \notin DOMAIN cache
    /\ calls' = Put(calls, Pair(args[p].country1, args[p].country2),
                    Bump(Count(calls, Pair(args[p].country1, args[p].country2))))
    /\ distance' = [distance EXCEPT ![p] = args[p].calc_fn]
    /\ pc' = [pc EXCEPT ![p] = IF IsSome(args[p].calc_fn) THEN "insert" ELSE "return"]
    /\ UNCHANGED <<asked, country_geometries, cache, lock, guessed, known_distance_km, initial_margin,
                   margin_error_km, idx, possible_countries, args, evals>>

\* the table is replaced by one holding only the new entry
InsertFresh(p) ==
    /\ pc[p] = "insert"
    /\ cache' = Put(EmptyMap, ArgKey(p), distance[p])
    /\ pc' = [pc EXCEPT ![p] = "return"]
    /\ UNCHANGED <<asked, country_geometries, lock, guessed, known_distance_km,
                   initial_margin, margin_error_km, idx, possible_countries,
                   args, distance, calls, evals>>

\* the computed distance is returned but not stored
InsertSkipped(p) ==
    /\ pc[p] = "insert"
    /\ pc' = [pc EXCEPT ![p] = "return"]
    /\ UNCHANGED <<asked, country_geometries, cache, lock, guessed,
                   known_distance_km, initial_margin, margin_error_km, idx,
                   possible_countries, args, distance, calls, evals>>

\* lines 39-40: the computed distance is stored
Insert(p) ==
    /\ pc[p] = "insert"
    /\ cache' = Put(cache, ArgKey(p), distance[p])
    /\ pc' = [pc EXCEPT ![p] = "return"]
    /\ UNCHANGED <<asked, country_geometries, lock, guessed, known_distance_km, initial_margin,
                   margin_error_km, idx, possible_countries, args, distance,
                   calls, evals>>

\* ------------------------------------- find_mystery_countries, continued
\* the band checked against its lower end only
InRangeLowerOnly(p, d) == FGe(d, lower_bound(p))

\* the ends of the band left out
InRangeExclusive(p, d) == FGt(d, lower_bound(p)) /\ FLt(d, upper_bound(p))

\* line 198
InRange(p, d) == FGe(d, lower_bound(p)) /\ FLe(d, upper_bound(p))

\* lines 195-202: `?` leaves the closure when nothing came back; the guard is
\* dropped on both paths, then the band is checked
DropGuard(p) ==
    /\ pc[p] = "return"
    /\ guessed[p] # 0
    /\ lock' = 0
    /\ possible_countries' =
           [possible_countries EXCEPT ![p] =
               IF IsSome(distance[p]) /\ InRange(p, distance[p])
               THEN Append(@, country(p).name) ELSE @]
    /\ idx' = [idx EXCEPT ![p] = @ + 1]
    /\ args' = [args EXCEPT ![p] = NoArgs]
    /\ distance' = [distance EXCEPT ![p] = None]
    /\ pc' = [pc EXCEPT ![p] = "scan"]
    /\ UNCHANGED <<asked, country_geometries, cache, guessed, known_distance_km,
                   initial_margin, margin_error_km, calls, evals>>

\* line 204: the iterator is exhausted, the names are returned to main
Collect(p) ==
    /\ pc[p] = "scan"
    /\ idx[p] > Len(country_geometries)
    /\ pc' = [pc EXCEPT ![p] = "returned"]
    /\ UNCHANGED <<asked, country_geometries, cache, lock, guessed, known_distance_km, initial_margin,
                   margin_error_km, idx, possible_countries, args, distance,
                   calls, evals>>

\* ------------------------------------------------------ main, continued
\* the ceiling compared with > instead of >=
LoopDonePastCeiling(p) ==
    \/ possible_countries[p] # <<>>
    \/ FGt(margin_error_km[p], MAX_MARGIN_INCREASE)

\* line 125
LoopDone(p) ==
    \/ possible_countries[p] # <<>>
    \/ FGe(margin_error_km[p], MAX_MARGIN_INCREASE)

\* lines 125-127: the expansion loop is left
Break(p) ==
    /\ pc[p] = "returned"
    /\ LoopDone(p)
    /\ pc' = [pc EXCEPT ![p] = "report"]
    /\ UNCHANGED <<asked, country_geometries, cache, lock, guessed, known_distance_km, initial_margin,
                   margin_error_km, idx, possible_countries, args, distance,
                   calls, evals>>

\* the margin is widened by two steps at once
ExpandDouble(p) ==
    /\ pc[p] = "returned"
    /\ ~LoopDone(p)
    /\ margin_error_km' = [margin_error_km EXCEPT ![p] =
                              FAdd(FAdd(@, MARGIN_STEP), MARGIN_STEP)]
    /\ pc' = [pc EXCEPT ![p] = "call"]
    /\ UNCHANGED <<asked, country_geometries, cache, lock, guessed,
                   known_distance_km, initial_margin, idx, possible_countries,
                   args, distance, calls, evals>>

\* lines 129-130: the margin is widened and the search repeated
Expand(p) ==
    /\ pc[p] = "returned"
    /\ ~LoopDone(p)
    /\ margin_error_km' = [margin_error_km EXCEPT ![p] = FAdd(@, MARGIN_STEP)]
    /\ pc' = [pc EXCEPT ![p] = "call"]
    /\ UNCHANGED <<asked, country_geometries, cache, lock, guessed, known_distance_km, initial_margin,
                   idx, possible_countries, args, distance, calls, evals>>

\* lines 133-144: the result is printed, back to the prompt
Report(p) ==
    /\ pc[p] = "report"
    /\ pc' = [pc EXCEPT ![p] = "prompt"]
    /\ ResetQuery(p)
    /\ UNCHANGED <<asked, country_geometries, cache, lock, args, distance, calls>>

\* ----------------------------------------------------------------- inputs
CountryLines ==
    {line_france, line_monaco, line_andorra, line_spain, line_gibraltar,
     line_atlantis, line_quit}

DistanceLines ==
    { <<ParseOk(Km(0))>>,                       \* "0"
      <<ParseOk(Km(5))>>,                       \* "5"
      <<ParseOk(Km(50))>>,                      \* "50"
      <<ParseOk(Km(8)), ParseOk(HalfKm(3))>>,   \* "8--1.5"
      <<ParseOk(Km(300))>>,                     \* "300"
      <<ParseOk(Km(300)), ParseOk(HalfKm(1))>>, \* "300--0.5"
      <<ParseOk(Km(300)), ParseOk(HalfKm(203))>>, \* "300--101.5"
      <<ParseOk(INFINITY)>>,                    \* "inf"
      <<ParseOk(Km(5)), ParseOk(NAN)>>,         \* "5--NaN"
      <<ParseOk(Km(0 - 5))>>,                   \* "-5"
      <<ParseOk(Km(5)), ParseOk(Km(0 - 1))>>,   \* "5---1"
      <<ParseErr>>,                             \* "abc"
      <<ParseOk(Km(1)), ParseOk(Km(2)), ParseOk(Km(3))>> }  \* "1--2--3"

Next ==
    \/ \E p \in Callers, line \in CountryLines : Quit(p, line)
    \/ \E p \in Callers, line \in CountryLines : CountryNotFound(p, line)
    \/ \E p \in Callers, line \in CountryLines : CountryFound(p, line)
    \/ \E p \in Callers, parts \in DistanceLines : DistanceRejected(p, parts)
    \/ \E p \in Callers, parts \in DistanceLines : DistanceAccepted(p, parts)
    \/ \E p \in Callers : CallFind(p)
    \/ \E p \in Callers : FilterSelf(p)
    \/ \E p \in Callers : SpecialCase(p)
    \/ \E p \in Callers : LockCache(p)
    \/ \E p \in Callers : CacheHit(p)
    \/ \E p \in Callers : CacheMiss(p)
    \/ \E p \in Callers : Insert(p)
    \/ \E p \in Callers : DropGuard(p)
    \/ \E p \in Callers : Collect(p)
    \/ \E p \in Callers : Break(p)
    \/ \E p \in Callers : Expand(p)
    \/ \E p \in Callers : Report(p)

Spec == Init /\ [][Next]_vars

\* -------------------------------------------------- concurrent callers
CountryLinesConc == {line_andorra, line_monaco, line_atlantis, line_quit}

DistanceLinesConc ==
    { <<ParseOk(Km(5))>>,                           \* "5"
      <<ParseOk(Km(300)), ParseOk(HalfKm(199))>>,   \* "300--99.5"
      <<ParseErr>> }                                \* "abc"

NextConc ==
    \/ \E p \in Callers, line \in CountryLinesConc : Quit(p, line)
    \/ \E p \in Callers, line \in CountryLinesConc : CountryNotFound(p, line)
    \/ \E p \in Callers, line \in CountryLinesConc : CountryFound(p, line)
    \/ \E p \in Callers, parts \in DistanceLinesConc : DistanceRejected(p, parts)
    \/ \E p \in Callers, parts \in DistanceLinesConc : DistanceAccepted(p, parts)
    \/ \E p \in Callers : CallFind(p)
    \/ \E p \in Callers : FilterSelf(p)
    \/ \E p \in Callers : SpecialCase(p)
    \/ \E p \in Callers : LockCache(p)
    \/ \E p \in Callers : CacheHit(p)
    \/ \E p \in Callers : CacheMiss(p)
    \/ \E p \in Callers : Insert(p)
    \/ \E p \in Callers : DropGuard(p)
    \/ \E p \in Callers : Collect(p)
    \/ \E p \in Callers : Break(p)
    \/ \E p \in Callers : Expand(p)
    \/ \E p \in Callers : Report(p)

SpecConc == InitConc /\ [][NextConc]_vars

\* ------------------------------------- concurrent callers, fairly scheduled
DistanceLinesFair ==
    { <<ParseOk(Km(14))>>,                          \* "14"
      <<ParseOk(Km(5)), ParseOk(NAN)>>,             \* "5--NaN"
      <<ParseErr>> }                                \* "abc"

NextFair ==
    \/ \E p \in Callers, line \in CountryLinesConc : Quit(p, line)
    \/ \E p \in Callers, line \in CountryLinesConc : CountryNotFound(p, line)
    \/ \E p \in Callers, line \in CountryLinesConc : CountryFound(p, line)
    \/ \E p \in Callers, parts \in DistanceLinesFair : DistanceRejected(p, parts)
    \/ \E p \in Callers, parts \in DistanceLinesFair : DistanceAccepted(p, parts)
    \/ \E p \in Callers : CallFind(p)
    \/ \E p \in Callers : FilterSelf(p)
    \/ \E p \in Callers : SpecialCase(p)
    \/ \E p \in Callers : LockCache(p)
    \/ \E p \in Callers : CacheHit(p)
    \/ \E p \in Callers : CacheMiss(p)
    \/ \E p \in Callers : Insert(p)
    \/ \E p \in Callers : DropGuard(p)
    \/ \E p \in Callers : Collect(p)
    \/ \E p \in Callers : Break(p)
    \/ \E p \in Callers : Expand(p)
    \/ \E p \in Callers : Report(p)

\* the steps a caller takes by itself once its query is accepted; reading a
\* line waits for the user and is not among them
Run(p) ==
    \/ CallFind(p)
    \/ FilterSelf(p)
    \/ SpecialCase(p)
    \/ CacheHit(p)
    \/ CacheMiss(p)
    \/ Insert(p)
    \/ DropGuard(p)
    \/ Collect(p)
    \/ Break(p)
    \/ Expand(p)
    \/ Report(p)

\* LockCache(p) can be taken exactly in these states
LockFree(p) == AtLock(p) /\ lock = 0

\* SF_vars(LockCache(p)) with ENABLED written out: a caller that finds the
\* Mutex free again and again gets it
StrongLockFairness(p) == []<>LockFree(p) => []<><<LockCache(p)>>_vars

\* every caller keeps running and none starves at the Mutex
Fairness ==
    \A p \in 1..NumCallers : WF_vars(Run(p)) /\ StrongLockFairness(p)

SpecConcFair == InitConc /\ [][NextFair]_vars /\ Fairness

\* ------------------------------------------- get_or_calculate by itself
TestNames == {Andorra, Monaco}
TestResults == {None, Km(7), INFINITY}

\* line 25: a call with country1, country2 and a closure yielding calc_fn
TestCall(p, country1, country2, calc_fn) ==
    /\ pc[p] = "test"
    /\ args' = [args EXCEPT ![p] =
                   [country1 |-> country1, country2 |-> country2,
                    calc_fn |-> calc_fn]]
    /\ distance' = [distance EXCEPT ![p] = None]
    /\ pc' = [pc EXCEPT ![p] = "lookup"]
    /\ UNCHANGED <<asked, country_geometries, cache, lock, guessed, known_distance_km,
                   initial_margin, margin_error_km, idx, possible_countries,
                   calls, evals>>

\* line 42: the call returns distance[p] to its caller
TestReturn(p) ==
    /\ pc[p] = "return"
    /\ guessed[p] = 0
    /\ pc' = [pc EXCEPT ![p] = "test"]
    /\ UNCHANGED <<asked, country_geometries, cache, lock, guessed, known_distance_km,
                   initial_margin, margin_error_km, idx, possible_countries,
                   args, distance, calls, evals>>

NextCache ==
    \/ \E p \in Callers, c1 \in TestNames, c2 \in TestNames, f \in TestResults :
          TestCall(p, c1, c2, f)
    \/ \E p \in Callers : CacheHit(p)
    \/ \E p \in Callers : CacheMiss(p)
    \/ \E p \in Callers : Insert(p)
    \/ \E p \in Callers : TestReturn(p)

SpecCache == InitCache /\ [][NextCache]_vars

\* --------------------------------- calculate_min_distance_km by itself
TestPoints == {0, 10 * Scale, 20015 * Scale, 40025 * Scale}

PointSeqs == UNION {[1..n -> TestPoints] : n \in 0..MaxPoints}

\* two countries with any point lists
InitDist ==
    InitFor({1}, {<<CountryData(Andorra, a), CountryData(Lesotho, b)>> :
                      a \in PointSeqs, b \in PointSeqs}, "measure")

\* lines 194 and 246-250: the engine is applied to countries i and j
Measure(p, i, j) ==
    /\ pc[p] = "measure"
    /\ args' = [args EXCEPT ![p] =
                   [country1 |-> country_geometries[i].name,
                    country2 |-> country_geometries[j].name,
                    calc_fn |-> None]]
    /\ idx' = [idx EXCEPT ![p] = j]
    /\ guessed' = [guessed EXCEPT ![p] = i]
    /\ distance' = [distance EXCEPT ![p] =
                       calculate_min_distance_km(country_geometries[i].points,
                                                 country_geometries[j].points)]
    /\ pc' = [pc EXCEPT ![p] = "measured"]
    /\ UNCHANGED <<asked, country_geometries, cache, lock, known_distance_km,
                   initial_margin, margin_error_km, possible_countries, calls,
                   evals>>

\* the result is dropped, the next pair can be measured
Forget(p) ==
    /\ pc[p] = "measured"
    /\ args' = [args EXCEPT ![p] = NoArgs]
    /\ idx' = [idx EXCEPT ![p] = 0]
    /\ guessed' = [guessed EXCEPT ![p] = 0]
    /\ distance' = [distance EXCEPT ![p] = None]
    /\ pc' = [pc EXCEPT ![p] = "measure"]
    /\ UNCHANGED <<asked, country_geometries, cache, lock, known_distance_km,
                   initial_margin, margin_error_km, possible_countries, calls,
                   evals>>

NextDist ==
    \/ \E p \in Callers, i \in 1..2, j \in 1..2 : Measure(p, i, j)
    \/ \E p \in Callers : Forget(p)

SpecDist == InitDist /\ [][NextDist]_vars

\* ================================================================ claims
Names(seq) == {seq[i] : i \in 1..Len(seq)}

Returned(p) == pc[p] = "returned"

InGetOrCalculate(p) == pc[p] \in {"lookup", "insert", "return"}

\* the distance the engine gives for two countries of the store
TrueDistance(c, d) == calculate_min_distance_km(c.points, d.points)

InBand(x, target, margin) ==
    FGe(x, FSub(target, margin)) /\ FLe(x, FAdd(target, margin))

\* ------------------------------------------------------------------ C1
C1_HitStep(p) ==
    LET pr == Pair(args[p].country1, args[p].country2)
    IN  (pc[p] = "lookup" /\ Count(calls, pr) >= 1 /\ pc'[p] # "lookup")
        => /\ calls' = calls
           /\ cache' = cache
           /\ \E k \in DOMAIN cache :
                  {k[1], k[2]} = pr /\ distance'[p] = cache[k]

\* C1: calc_fn is invoked at most once per unordered pair of names; once a
\* lookup of {A,B} has invoked it, every later lookup of (A,B) or (B,A)
\* returns the stored value and leaves the call count and the cache alone.
C1_AtMostOncePerPair ==
    /\ [](\A pr \in DOMAIN calls : calls[pr] <= 1)
    /\ [][\A p \in Callers : C1_HitStep(p)]_vars

\* Monaco is guessed after Andorra only: the lookup (Monaco, Andorra) was
\* answered from the entry the lookup (Andorra, Monaco) stored
C1_Witness ==
    \E p \in Callers :
        /\ pc[p] = "return"
        /\ args[p].country1 = Monaco
        /\ args[p].country2 = Andorra
        /\ distance[p] = Km(17)
        /\ calls[{Andorra, Monaco}] = 1
        /\ DOMAIN cache =
               {<<Andorra, France>>, <<Andorra, Monaco>>, <<Andorra, FRANCE_UPPER>>,
                <<Andorra, SPAIN_UPPER>>, <<Andorra, Gibraltar>>}

\* ------------------------------------------------------------------ C2
\* C2: with several callers sharing the cache, no two of them are inside
\* get_or_calculate at once and calc_fn is invoked at most once per
\* unordered pair.
C2_NoDoubleCompute ==
    /\ \A pr \in DOMAIN calls : calls[pr] <= 1
    /\ \A p \in Callers, q \in Callers :
           p # q => ~(InGetOrCalculate(p) /\ InGetOrCalculate(q))

\* one caller is about to store a pair that another caller's scan has reached
C2_Witness ==
    \E p \in Callers, q \in Callers :
        /\ p # q
        /\ pc[p] = "insert"
        /\ Scanning(q)
        /\ ~is_special_case(guessed_country(q).name, country(q).name)
        /\ Pair(guessed_country(q).name, country(q).name)
               = Pair(args[p].country1, args[p].country2)

\* ------------------------------------------------------------------ C3
\* C3: every name find_mystery_countries returns, in every iteration of the
\* expansion loop, is a store country that is a special pair with the guessed
\* country or whose distance to it lies in [target - margin, target + margin].
C3_ReturnedInBand ==
    \A p \in Callers :
        Returned(p) =>
            \A n \in Names(possible_countries[p]) :
                \E i \in 1..Len(country_geometries) :
                    /\ country_geometries[i].name = n
                    /\ \/ is_special_case(guessed_country(p).name, n)
                       \/ InBand(TrueDistance(guessed_country(p), country_geometries[i]),
                                 known_distance_km[p], margin_error_km[p])

\* "8--1.5" for Andorra: the third evaluation, at margin 3.5, returns France
C3_Witness ==
    \E p \in Callers :
        /\ Returned(p)
        /\ guessed_country(p).name = Andorra
        /\ evals[p] = 3
        /\ margin_error_km[p] = HalfKm(7)
        /\ possible_countries[p] = <<France>>

\* ------------------------------------------------------------------ C4
InQuery(p) == evals[p] >= 1 /\ FGe(initial_margin[p], Zero)

CeilDiv(a, b) == (a + b - 1) \div b

\* C4 as stated: evaluations <= (ceiling - initial_margin) / step + 1
C4_OriginalBound ==
    \A p \in Callers :
        InQuery(p) =>
            /\ initial_margin[p].k = "fin"
            /\ (evals[p] - 1) * MARGIN_STEP.v
                   <= MAX_MARGIN_INCREASE.v - initial_margin[p].v

\* C4 (amended): a query with initial margin >= 0 evaluates
\* find_mystery_countries once when the margin is already at the ceiling or
\* beyond, else at most ceil((ceiling - initial_margin) / step) + 1 times.
C4_EvaluationBound ==
    \A p \in Callers :
        InQuery(p) =>
            evals[p] <= IF FGe(initial_margin[p], MAX_MARGIN_INCREASE) THEN 1
                        ELSE CeilDiv(MAX_MARGIN_INCREASE.v - initial_margin[p].v,
                                     MARGIN_STEP.v) + 1

\* "300--0.5": 101 evaluations, the last at margin 100.5
C4_Witness ==
    \E p \in Callers :
        /\ pc[p] = "report"
        /\ initial_margin[p] = HalfKm(1)
        /\ margin_error_km[p] = HalfKm(201)
        /\ evals[p] = 101
        /\ possible_countries[p] = <<>>

\* ------------------------------------------------------------------ C5
HasPoints(n) ==
    \A i \in 1..Len(country_geometries) :
        country_geometries[i].name = n => country_geometries[i].points # <<>>

\* find_mystery_countries over the store without its point-less candidates
RECURSIVE FindAmong(_, _, _, _)
FindAmong(g, target, margin, cs) ==
    IF cs = <<>> THEN <<>>
    ELSE LET c == Head(cs)
             rest == FindAmong(g, target, margin, Tail(cs))
         IN  IF c.name = g.name \/ c.points = <<>> THEN rest
             ELSE IF is_special_case(g.name, c.name)
                     \/ InBand(TrueDistance(g, c), target, margin)
                  THEN <<c.name>> \o rest
             ELSE rest

\* C5: a country without points is never returned, and the names returned
\* for the other countries are those returned without it in the store.
C5_EmptyNeverReturned ==
    \A p \in Callers :
        Returned(p) =>
            /\ \A n \in Names(possible_countries[p]) : HasPoints(n)
            /\ SelectSeq(possible_countries[p], HasPoints)
                   = FindAmong(guessed_country(p), known_distance_km[p],
                               margin_error_km[p], country_geometries)

\* ------------------------------------------------------------------ C6
\* C6: when the guessed or the candidate country has no points, the lookup
\* yields nothing and no entry for the pair is in the cache.
C6_EmptyYieldsAbsent ==
    \A p \in Callers :
        ( /\ pc[p] = "return"
          /\ guessed[p] # 0
          /\ \/ guessed_country(p).points = <<>>
             \/ country(p).points = <<>> )
        => /\ distance[p] = None
           /\ ArgKey(p) \notin DOMAIN cache

\* ------------------------------------------------------------------ C7
Lower(s) == [i \in 1..Len(s) |-> ToAsciiLower(s[i])]

C7_SpecialPair(a, b) ==
    {Lower(a), Lower(b)}
        \in {{Lower(special_pairs[i][1]), Lower(special_pairs[i][2])} :
                i \in 1..Len(special_pairs)}

\* C7: a store country that forms a special pair with the guessed country,
\* in either order and whatever the letter case, is returned for every
\* target and margin.
C7_SpecialAlwaysReturned ==
    \A p \in Callers :
        Returned(p) =>
            \A i \in 1..Len(country_geometries) :
                C7_SpecialPair(guessed_country(p).name, country_geometries[i].name)
                    => country_geometries[i].name \in Names(possible_countries[p])

\* France guessed with target 0 and margin 0: Monaco, 2 km away, is returned
C7_Witness ==
    \E p \in Callers :
        /\ Returned(p)
        /\ guessed_country(p).name = France
        /\ known_distance_km[p] = Zero
        /\ margin_error_km[p] = Zero
        /\ ~InBand(TrueDistance(guessed_country(p), country_geometries[2]), Zero, Zero)
        /\ possible_countries[p] = <<Monaco>>

\* ------------------------------------------------------------------ C8
\* C8: a store entry equal to the guessed name up to letter case is never
\* returned and never gets a cache entry of its own.
C8_CaseInsensitiveNames ==
    /\ \A p \in Callers :
           Returned(p) =>
               \A n \in Names(possible_countries[p]) :
                   ~eq_ignore_ascii_case(n, guessed_country(p).name)
    /\ \A k \in DOMAIN cache : ~eq_ignore_ascii_case(k[1], k[2])

\* ------------------------------------------------------------------ C9
\* C9: a key present in the cache stays present with the same value.
C9_CacheOnlyGrows ==
    [][\A k \in DOMAIN cache : k \in DOMAIN cache' /\ cache'[k] = cache[k]]_vars

\* a later query inserts next to the entries of an earlier one
C9_Witness ==
    \E p \in Callers :
        /\ pc[p] = "return"
        /\ guessed_country(p).name = Monaco
        /\ <<Andorra, France>> \in DOMAIN cache
        /\ <<Monaco, SPAIN_UPPER>> \in DOMAIN cache
        /\ cache[<<Andorra, France>>] = Km(5)

\* ----------------------------------------------------------------- C10
C10_MissStep(p) ==
    LET pr == Pair(args[p].country1, args[p].country2)
    IN  (pc[p] = "lookup" /\ ArgKey(p) \notin DOMAIN cache /\ pc'[p] # "lookup")
        => /\ Count(calls, pr) < MaxCount => Count(calls', pr) = Count(calls, pr) + 1
           /\ cache' = cache
           /\ distance'[p] = args[p].calc_fn
           /\ pc'[p] = IF IsSome(args[p].calc_fn) THEN "insert" ELSE "return"

C10_InsertStep(p) ==
    (pc[p] = "insert" /\ pc'[p] # "insert")
        => /\ calls' = calls
           /\ DOMAIN cache' = DOMAIN cache \cup {ArgKey(p)}
           /\ cache'[ArgKey(p)] = args[p].calc_fn
           /\ \A k \in DOMAIN cache : cache'[k] = cache[k]
           /\ distance'[p] = args[p].calc_fn
           /\ pc'[p] = "return"

\* C10: on a miss calc_fn is invoked exactly once; a value is stored under
\* the canonical key and returned; when it yields nothing the cache is left
\* unchanged and nothing is returned.
C10_MissContract ==
    [][\A p \in Callers : C10_MissStep(p) /\ C10_InsertStep(p)]_vars

\* a closure that yields nothing has run: nothing cached, nothing returned
C10_Witness ==
    \E p \in Callers :
        /\ pc[p] = "return"
        /\ args[p].country1 = Monaco
        /\ args[p].country2 = Andorra
        /\ args[p].calc_fn = None
        /\ distance[p] = None
        /\ calls[{Andorra, Monaco}] = 2
        /\ <<Andorra, Monaco>> \notin DOMAIN cache

\* ----------------------------------------------------------------- C11
\* the least element of a non-empty set of finite f64 values
LeastOf(S) == CHOOSE x \in S : \A y \in S : FLe(x, y)

PairwiseKm(points1, points2) ==
    {FDivMetres(haversine_distance(points1[i], points2[j])) :
        i \in 1..Len(points1), j \in 1..Len(points2)}

\* C11: calculate_min_distance_km gives the same value with its arguments
\* swapped, and for non-empty point lists that value is the least
\* point-to-point distance over all pairs.
C11_SymmetricMinimum ==
    \A p \in Callers :
        pc[p] = "measured" =>
            LET a == guessed_country(p).points
                b == country(p).points
            IN  /\ distance[p] = calculate_min_distance_km(b, a)
                /\ (a # <<>> /\ b # <<>>) => distance[p] = LeastOf(PairwiseKm(a, b))

\* two points each; the least distance, 5 km across the wrap, is between the
\* second point of the one and the first of the other
C11_Witness ==
    \E p \in Callers :
        /\ pc[p] = "measured"
        /\ guessed_country(p).points = <<10 * Scale, 40025 * Scale>>
        /\ country(p).points = <<0, 20015 * Scale>>
        /\ distance[p] = Km(5)

\* ----------------------------------------------------------------- C12
InCore(p) == pc[p] \in {"scan", "lookup", "insert", "return", "returned"}

C12_RejectStep(p) ==
    (pc[p] \in {"prompt", "distance"} /\ pc'[p] \in {"prompt", "done"})
        => cache' = cache /\ calls' = calls /\ evals'[p] = 0

\* C12: find_mystery_countries only ever runs with a target >= 0 and a
\* margin >= 0, during expansion too; a rejected distance line or an unknown
\* country ends the query without a call and leaves the cache unchanged.
C12_ValidQueriesOnly ==
    /\ [](\A p \in Callers :
             InCore(p) => /\ FGe(known_distance_km[p], Zero)
                          /\ FGe(margin_error_km[p], Zero))
    /\ [][\A p \in Callers : C12_RejectStep(p)]_vars

\* ----------------------------------------------------------------- C13
\* the names find_mystery_countries gives for one margin, by definition
RECURSIVE FindAll(_, _, _, _)
FindAll(g, target, margin, cs) ==
    IF cs = <<>> THEN <<>>
    ELSE LET c == Head(cs)
             rest == FindAll(g, target, margin, Tail(cs))
         IN  IF c.name = g.name THEN rest
             ELSE IF is_special_case(g.name, c.name)
                     \/ InBand(TrueDistance(g, c), target, margin)
                  THEN <<c.name>> \o rest
             ELSE rest

AtCeiling(m) == FGe(m, MAX_MARGIN_INCREASE)

\* the margin of the n-th evaluation
NthMargin(initial, n) == FAdd(initial, Fin((n - 1) * MARGIN_STEP.v))

C13_LoopStep(p) ==
    (pc[p] = "returned" /\ pc'[p] # "returned")
        => IF possible_countries[p] # <<>> \/ AtCeiling(margin_error_km[p])
           THEN /\ pc'[p] = "report"
                /\ margin_error_km'[p] = margin_error_km[p]
                /\ possible_countries'[p] = possible_countries[p]
           ELSE /\ pc'[p] = "call"
                /\ margin_error_km'[p] = FAdd(margin_error_km[p], MARGIN_STEP)

\* C13: the n-th evaluation of a query uses margin initial + (n-1)*step; the
\* loop goes on exactly while the names are empty and the margin is below
\* the ceiling; the names reported are those of the final margin.
C13_ExpansionOrder ==
    /\ [](\A p \in Callers :
             (InCore(p) \/ pc[p] = "report")
                 => margin_error_km[p] = NthMargin(initial_margin[p], evals[p]))
    /\ [](\A p \in Callers :
             pc[p] = "report"
                 => /\ possible_countries[p] # <<>> \/ AtCeiling(margin_error_km[p])
                    /\ possible_countries[p]
                           = FindAll(guessed_country(p), known_distance_km[p],
                                     margin_error_km[p], country_geometries))
    /\ [][\A p \in Callers : C13_LoopStep(p)]_vars

\* two countries 100 km apart, "50": empty at margins 0..49, the other
\* country is reported by the 51st evaluation, at margin 50
C13_Witness ==
    \E p \in Callers :
        /\ pc[p] = "report"
        /\ country_geometries = StoreTwo
        /\ known_distance_km[p] = Km(50)
        /\ initial_margin[p] = Zero
        /\ margin_error_km[p] = Km(50)
        /\ evals[p] = 51
        /\ possible_countries[p] = <<Lesotho>>

\* ----------------------------------------------------------------- C14
\* C14: for an initial margin >= 0, every margin an expansion step produces
\* is at most MAX_MARGIN_INCREASE.
C14_MarginWithinCeiling ==
    \A p \in Callers :
        (InQuery(p) /\ evals[p] >= 1 /\ margin_error_km[p] # initial_margin[p])
            => FLe(margin_error_km[p], MAX_MARGIN_INCREASE)

\* ----------------------------------------------------------------- C15
\* the position of name n in the store
StoreIndex(n) ==
    CHOOSE i \in 1..Len(country_geometries) : country_geometries[i].name = n

\* C15: when the loop has ended, every store country other than the guessed
\* one whose distance lies in the band of the final margin is among the
\* names; the names are store names, without repetition, in store order, and
\* the guessed country is not among them.
C15_Complete ==
    \A p \in Callers :
        pc[p] = "report" =>
            LET names == possible_countries[p]
                g == guessed_country(p)
            IN  /\ \A i \in 1..Len(country_geometries) :
                       ( /\ i # guessed[p]
                         /\ InBand(TrueDistance(g, country_geometries[i]),
                                   known_distance_km[p], margin_error_km[p]) )
                       => country_geometries[i].name \in Names(names)
                /\ \A j \in 1..Len(names) :
                       \E i \in 1..Len(country_geometries) :
                           country_geometries[i].name = names[j]
                /\ \A j \in 1..Len(names), k \in 1..Len(names) :
                       j < k => StoreIndex(names[j]) < StoreIndex(names[k])
                /\ g.name \notin Names(names)

\* "5" for Andorra: France, exactly 5 km away, is the one name, and FRANCE,
\* Monaco and the others are left out
C15_Witness ==
    \E p \in Callers :
        /\ pc[p] = "report"
        /\ country_geometries = StoreWorld
        /\ guessed_country(p).name = Andorra
        /\ known_distance_km[p] = Km(5)
        /\ margin_error_km[p] = Zero
        /\ possible_countries[p] = <<France>>

\* ----------------------------------------------------------------- C16
C16_RetryStep(p) ==
    (evals[p] >= 2 /\ InCore(p))
        => /\ calls' = calls
           /\ cache' = cache
           /\ pc[p] = "lookup" => ArgKey(p) \in DOMAIN cache

\* C16: from the second evaluation of a query on, every lookup finds its key
\* in the cache, and neither the call counts of calc_fn nor the cache change.
C16_RetriesOnlyFilter ==
    [][\A p \in Callers : C16_RetryStep(p)]_vars

\* the fourth evaluation of a query has scanned the whole store again and
\* one of its lookups has been answered
C16_Witness ==
    \E p \in Callers :
        /\ pc[p] = "return"
        /\ evals[p] = 4
        /\ idx[p] = Len(country_geometries)
        /\ country_geometries = StoreWorld
        /\ IsSome(distance[p])

\* ----------------------------------------------------------------- C17
\* C17: every key (x, y) of the cache has x < y as strings, holds the name of
\* a country guessed in some query, and is not a special pair.
C17_CanonicalKeys ==
    \A k \in DOMAIN cache :
        /\ StrLt(k[1], k[2])
        /\ k[1] \in asked \/ k[2] \in asked
        /\ ~C7_SpecialPair(k[1], k[2])

\* after Andorra and SPAIN have been guessed: SPAIN sorts before lower-case
\* names, and Gibraltar, special with SPAIN, is keyed with Andorra only
C17_Witness ==
    /\ asked = {Andorra, SPAIN_UPPER}
    /\ <<France, SPAIN_UPPER>> \in DOMAIN cache
    /\ <<Andorra, SPAIN_UPPER>> \in DOMAIN cache
    /\ <<Andorra, Gibraltar>> \in DOMAIN cache
    /\ <<Gibraltar, SPAIN_UPPER>> \notin DOMAIN cache

\* ----------------------------------------------------------------- C18
InQueryLoop(p) == pc[p] = "call" \/ InCore(p)

LockDiscipline ==
    /\ lock \in {0} \cup Callers
    /\ \A p \in Callers : lock = p <=> InGetOrCalculate(p)

\* some caller that is inside a query can take its next step
NoDeadlock ==
    (\E p \in Callers : InQueryLoop(p))
        => \E p \in Callers :
               /\ InQueryLoop(p)
               /\ IF AtLock(p) THEN lock = 0 ELSE ENABLED Run(p)

\* C18: a caller holds the lock exactly while it is inside get_or_calculate,
\* so none waits for the lock while holding it and some caller can always
\* step; under fair scheduling every query's scan and expansion loop ends.
C18_LockAndProgress ==
    /\ [](LockDiscipline /\ NoDeadlock)
    /\ \A p \in 1..NumCallers : []<>(~InQueryLoop(p))

\* the lock part of C18 by itself
C18_LockOnly == [](LockDiscipline /\ NoDeadlock)

\* the progress part of C18 for a caller that never enters a NaN margin
C18_FiniteMarginsComplete ==
    \A p \in 1..NumCallers :
        []<>(~InQueryLoop(p)) \/ <>(initial_margin[p].k = "nan")

====
